---- MODULE Spec2Model ----
(***************************************************************************)
(* Model of storm_surge/square_basin/setrun.py: the script that derives    *)
(* the run-time parameters of a GeoClaw storm-surge run (setrun, setgeo,   *)
(* set_storm) and the __main__ block that writes them.                     *)
(*                                                                         *)
(* Conventions.  Lengths are metres and times are seconds, as in the       *)
(* source; every float literal the model keeps is integer-valued there     *)
(* (500e3 = 500000), except the ones represented as exact fractions or as  *)
(* mantissa/exponent pairs below.  An object (clawdata, geodata, the storm *)
(* data) is the function from the names of the attributes the script has   *)
(* assigned so far to their values; what the library constructors put      *)
(* there besides is not part of the script and is not modelled.            *)
(*                                                                         *)
(* Spec runs the script as written.  SpecParam runs the same statements    *)
(* with the literals the file hard-codes (num_hours, step, RAMP_UP_TIME,   *)
(* outstyle, N_gauges, the gauge span, mwaves, mthlim) drawn from small    *)
(* sets, for the statements made "for every" value of them.                *)
(***************************************************************************)
EXTENDS Integers, Sequences, FiniteSets, TLC

VARIABLES
    argv,          \* sys.argv: the script name followed by the arguments
    RAMP_UP_TIME,  \* module global, line 15
    lit,           \* the literals of the file that SpecParam varies
    pc,            \* the statement block about to run
    claw_pkg,      \* setrun's parameter
    rundata,       \* the ClawRunData object: [made, clawdata, geodata]
    i,             \* loop variable of the gauge loop in setgeo
    storm_data,    \* the StormData object of set_storm: [made, data]
    written,       \* the objects handed to write(), in order
    err            \* the exception that ended the run, "none" while running

vars == <<argv, RAMP_UP_TIME, lit, pc, claw_pkg, rundata, i, storm_data, written, err>>

-----------------------------------------------------------------------------
(* Bounds of SpecParam. *)

MaxHours == 2
MaxRampSteps == 2
MaxGauges == 3
MaxLimiters == 3

-----------------------------------------------------------------------------
(* Strings are sequences of one-character strings, so that lower() is an   *)
(* operation on them.                                                      *)

geoclaw == <<"g", "e", "o", "c", "l", "a", "w">>
GeoClaw == <<"G", "e", "o", "C", "l", "a", "w">>
GEOCLAW == <<"G", "E", "O", "C", "L", "A", "W">>
amrclaw == <<"a", "m", "r", "c", "l", "a", "w">>
Classic == <<"C", "l", "a", "s", "s", "i", "c">>
script  == <<"s", "e", "t", "r", "u", "n", ".", "p", "y">>

\* The package names tried on the command line.
PkgArgs == {geoclaw, GeoClaw, GEOCLAW, amrclaw, Classic, <<>>}

\* The command lines tried: no argument, one argument, two arguments.
ArgvSet ==
    {<<script>>} \cup {<<script, p>> : p \in PkgArgs}
                 \cup {<<script, amrclaw, geoclaw>>}

\* str.lower() on one character (the upper-case letters the inputs use).
LowerChar(c) ==
    CASE c = "A" -> "a" [] c = "C" -> "c" [] c = "E" -> "e" [] c = "G" -> "g"
      [] c = "L" -> "l" [] c = "O" -> "o" [] c = "W" -> "w" [] OTHER -> c

\* str.lower()
Lower(s) == [k \in 1..Len(s) |-> LowerChar(s[k])]

-----------------------------------------------------------------------------
(* Arithmetic of the script.  A float that is not an integer is the exact  *)
(* fraction [n, d] with d > 0; the values of step tried are binary         *)
(* fractions, for which the floor and the ceiling of the IEEE quotients of *)
(* the script equal those of the exact quotients.                          *)

\* int(a / b) for b > 0: truncation towards zero.
IntOfQuot(a, b) == IF a >= 0 THEN a \div b ELSE -((-a) \div b)

\* np.ceil(a / b) for b > 0.
CeilOfQuot(a, b) == -((-a) \div b)

\* 60**2
SecondsPerHour == 60 * 60

\* a < b for fractions.
FracLT(a, b) == a.n * b.d < b.n * a.d

\* The fraction of an integer.
Frac(k) == [n |-> k, d |-> 1]

\* A float literal m * 10^e kept as written (1e10 exceeds the integers of
\* the checker).
Sci(m, e) == [m |-> m, e |-> e]

RECURSIVE Pow10(_)
Pow10(e) == IF e = 0 THEN 1 ELSE 10 * Pow10(e - 1)

\* a < b for two such literals with small mantissas.
SciLT(a, b) ==
    LET lo == IF a.e < b.e THEN a.e ELSE b.e
        da == a.e - lo
        db == b.e - lo
    IN  IF da > 9 THEN (IF a.m = 0 THEN 0 < b.m ELSE a.m < 0)
        ELSE IF db > 9 THEN (IF b.m = 0 THEN a.m < 0 ELSE 0 < b.m)
        ELSE a.m * Pow10(da) < b.m * Pow10(db)

-----------------------------------------------------------------------------
(* Objects. *)

\* An object on which the script has assigned nothing.
NoAttrs == [a \in {} |-> 0]

\* obj.a = v for every attribute a of the record new.
Assign(obj, new) == new @@ obj

Attrs(obj) == DOMAIN obj

-----------------------------------------------------------------------------
(* The literals of the file. *)

\* RAMP_UP_TIME = 12 * 60**2
RampSource == 12 * SecondsPerHour

\* num_hours, step, outstyle (lines 109-113), N_gauges and the two literals of
\* the gauge formula (lines 328, 332), mwaves and mthlim (lines 188, 192).
SourceLit ==
    [num_hours  |-> 40,
     step       |-> [n |-> 1, d |-> 4],
     outstyle   |-> 1,
     N_gauges   |-> 21,
     gauge_span |-> 550000,
     gauge_y0   |-> -275000,
     mwaves     |-> 3,
     mthlim     |-> <<3, 3, 3>>]

\* The values SpecParam tries for them.
HoursSet == (0..MaxHours) \cup {SourceLit.num_hours}
StepSet == {[n |-> 1, d |-> 4], [n |-> 1, d |-> 2], [n |-> 3, d |-> 4], [n |-> 3, d |-> 2]}
RampSet == {k * 600 : k \in 0..MaxRampSteps} \cup {RampSource}
OutstyleSet == {1, 2, 3}
GaugeCountSet == (1..MaxGauges) \cup {SourceLit.N_gauges}
SpanSet == {[span |-> 550000, y0 |-> -275000], [span |-> 100, y0 |-> -30]}
MthlimSet == {[k \in 1..m |-> 3] : m \in 1..MaxLimiters}

LitSet ==
    {[num_hours  |-> h,
      step       |-> s,
      outstyle   |-> o,
      N_gauges   |-> g,
      gauge_span |-> sp.span,
      gauge_y0   |-> sp.y0,
      mwaves     |-> SourceLit.mwaves,
      mthlim     |-> ml] :
        h \in HoursSet, s \in StepSet, o \in OutstyleSet, g \in GaugeCountSet,
        sp \in SpanSet, ml \in MthlimSet}

-----------------------------------------------------------------------------
(* setrun: the order of its statement blocks, and what each assigns. *)

\* The package check placed after the construction of the object.
SetrunOrder_AssertLate ==
    <<"construct", "assert", "setgeo", "domain", "size", "t0", "output",
      "stepping", "method", "bc", "amr", "return">>

\* setgeo called once the numerics attributes are set.
SetrunOrder_GeoLast ==
    <<"assert", "construct", "domain", "size", "t0", "output",
      "stepping", "method", "bc", "amr", "setgeo", "return">>

SetrunOrder ==
    <<"assert", "construct", "setgeo", "domain", "size", "t0", "output",
      "stepping", "method", "bc", "amr", "return">>

\* The block that follows block l of setrun.
After(l) ==
    LET k == CHOOSE j \in 1..Len(SetrunOrder) : SetrunOrder[j] = l
    IN  SetrunOrder[k + 1]

\* Before data.ClawRunData is called there is no object.
NoRundata ==
    [made |-> FALSE, pkg |-> <<>>, ndim |-> 0, has_geodata |-> FALSE,
     clawdata |-> NoAttrs, geodata |-> NoAttrs]

\* data.ClawRunData(claw_pkg, ndim): a geoclaw run has a geodata attribute.
ClawRunData(pkg, ndim) ==
    [made |-> TRUE, pkg |-> pkg, ndim |-> ndim,
     has_geodata |-> (Lower(pkg) = geoclaw),
     clawdata |-> NoAttrs, geodata |-> NoAttrs]

\* Spatial domain, lines 66-77.
DomainAttrs(ndim) ==
    [ndim |-> ndim, xlower |-> -200000, xupper |-> 500000,
     ylower |-> -300000, yupper |-> 300000, mx |-> 70, my |-> 60]

\* Size of system, lines 84-90.
SizeAttrs == [meqn |-> 3, maux |-> 9, mcapa |-> 0]

\* Initial time, line 98.
InitialTimeAttrs(ramp) == [t0 |-> -ramp]

\* Style 1 without the frames of the ramp-up.
OutputAttrs_NoRamp(outstyle, num_hours, step, ramp) ==
    [outstyle |-> outstyle,
     nout     |-> IntOfQuot(num_hours * step.d, step.n),
     tfinal   |-> num_hours * SecondsPerHour]

\* Style 1 with the ramp-up term truncated instead of rounded up.
OutputAttrs_FloorRamp(outstyle, num_hours, step, ramp) ==
    [outstyle |-> outstyle,
     nout     |-> IntOfQuot(num_hours * step.d, step.n)
                  + IntOfQuot(ramp * step.d, step.n * SecondsPerHour),
     tfinal   |-> num_hours * SecondsPerHour]

\* Output times, lines 109-136.
OutputAttrs(outstyle, num_hours, step, ramp) ==
    IF outstyle = 1 THEN
        [outstyle |-> outstyle,
         nout     |-> IntOfQuot(num_hours * step.d, step.n)
                      + CeilOfQuot(ramp * step.d, step.n * SecondsPerHour),
         tfinal   |-> num_hours * SecondsPerHour]
    ELSE IF outstyle = 2 THEN
        LET tout == <<0, 1, 2, 3, 4>>
        IN  [outstyle |-> outstyle, tout |-> tout, nout |-> Len(tout)]
    ELSE IF outstyle = 3 THEN
        [outstyle |-> outstyle, iout |-> <<1, 100>>]
    ELSE [outstyle |-> outstyle]

\* Verbosity and time stepping, lines 147-172.
SteppingAttrs ==
    [verbosity |-> 2, dt_variable |-> 1, dt_initial |-> [n |-> 16, d |-> 1000],
     dt_max |-> Sci(1, 99), cfl_desired |-> [n |-> 3, d |-> 4],
     cfl_max |-> Frac(1), max_steps |-> 5000]

\* One limiter fewer than written.
MethodAttrs_ShortLimiters(mwaves, mthlim) ==
    [order |-> 2, order_trans |-> 2, mwaves |-> mwaves,
     mthlim |-> SubSeq(mthlim, 1, Len(mthlim) - 1), src_split |-> 1]

\* Method, lines 182-198.
MethodAttrs(mwaves, mthlim) ==
    [order |-> 2, order_trans |-> 2, mwaves |-> mwaves, mthlim |-> mthlim,
     src_split |-> 1]

\* Boundary conditions, lines 206-218.
BCAttrs ==
    [mbc |-> 2, mthbc_xlower |-> 1, mthbc_xupper |-> 1,
     mthbc_ylower |-> 1, mthbc_yupper |-> 1]

\* The level count stored without the sign, and one aux type missing.
AMRAttrs_Positive ==
    [mxnest |-> 5,
     inratx |-> <<2, 2, 2, 2, 2>>,
     inraty |-> <<2, 2, 2, 2, 2>>,
     inratt |-> <<2, 2, 2, 2, 2>>,
     auxtype |-> <<"center", "center", "center", "center", "center",
                   "center", "center", "center">>,
     tol |-> Frac(-1), tolsp |-> [n |-> 1, d |-> 2],
     cutoff |-> [n |-> 7, d |-> 10], kcheck |-> 3, ibuff |-> 2]

\* AMR parameters, lines 227-257.
AMRAttrs ==
    LET mxnest == 5
    IN  [mxnest |-> -mxnest,
         inratx |-> <<2, 2, 2, 2, 2>>,
         inraty |-> <<2, 2, 2, 2, 2>>,
         inratt |-> <<2, 2, 2, 2, 2>>,
         auxtype |-> <<"center", "center", "center", "center", "center",
                       "center", "center", "center", "center">>,
         tol |-> Frac(-1), tolsp |-> [n |-> 1, d |-> 2],
         cutoff |-> [n |-> 7, d |-> 10], kcheck |-> 3, ibuff |-> 2]

-----------------------------------------------------------------------------
(* setgeo. *)

\* setgeo.data, settsunami.data, settopo.data, setdtopo.data, setqinit.data
\* and setregions.data values, lines 281-321.
GeoAttrs ==
    [variable_dt_refinement_ratios |-> TRUE,
     gravity |-> [n |-> 981, d |-> 100], coordinate_system |-> 1,
     earth_radius |-> 6367500, coriolis_forcing |-> TRUE, theta_0 |-> 45,
     dry_tolerance |-> [n |-> 1, d |-> 100], wave_tolerance |-> [n |-> 1, d |-> 2],
     speed_tolerance |-> <<[n |-> 1, d |-> 4], [n |-> 1, d |-> 2], Frac(1),
                           Frac(2), Frac(3), Frac(4)>>,
     deep_depth |-> 200, max_level_deep |-> 4, friction_forcing |-> 1,
     manning_coefficient |-> [n |-> 25, d |-> 1000], friction_depth |-> 1000000,
     topofiles |-> <<>>, topo_type |-> 2, x0 |-> 350000, x1 |-> 450000,
     x2 |-> 480000, basin_depth |-> -3000, shelf_depth |-> -200,
     beach_slope |-> [n |-> 5, d |-> 100],
     dtopofiles |-> <<>>, qinit_type |-> 0, qinitfiles |-> <<>>,
     regions |-> <<>>]

\* The gauges counted from i instead of i+1: the first one on the edge.
GaugeY_FromZero(N, k, span, y0) == [n |-> span * k + y0 * (N + 1), d |-> N + 1]

\* y = span / (N_gauges + 1) * (i+1) + y0, line 332, as an exact fraction.
GaugeY(N, k, span, y0) == [n |-> span * (k + 1) + y0 * (N + 1), d |-> N + 1]

\* Every gauge numbered N_gauges.
GaugeLine_SameId(N, k, span, y0) ==
    [id |-> N, x |-> 455000, y |-> [n |-> span * (k + 1) + y0 * (N + 1), d |-> N + 1],
     t1 |-> Sci(0, 0), t2 |-> Sci(1, 10)]

\* [i, x, y, 0.0, 1e10], lines 330-333.
GaugeLine(N, k, span, y0) ==
    [id |-> k, x |-> 455000, y |-> GaugeY(N, k, span, y0),
     t1 |-> Sci(0, 0), t2 |-> Sci(1, 10)]

\* Fixed grids and multilayer values, lines 338-346.
GeoTailAttrs ==
    [fixedgrids |-> <<>>, layers |-> 1, rho |-> 1025, eta_init |-> 0,
     richardson_tolerance |-> [n |-> 95, d |-> 100]]

-----------------------------------------------------------------------------
(* set_storm. *)

NoStorm == [made |-> FALSE, data |-> NoAttrs]

\* The storm's ramp-up taken from the other value of line 14, 0.0.
StormAttrs_NoRamp(ramp) ==
    [rho_air |-> [n |-> 115, d |-> 100], ambient_pressure |-> 101500,
     wind_forcing |-> TRUE, pressure_forcing |-> TRUE,
     wind_tolerance |-> Sci(1, -6), pressure_tolerance |-> Sci(1, -4),
     wind_refine |-> <<20, 40, 60>>, R_refine |-> <<60000, 40000, 20000>>,
     storm_type |-> 2, ramp_up_t |-> 0,
     velocity |-> <<5, 0>>, R_eye_init |-> <<0, 0>>,
     A |-> 23, B |-> [n |-> 3, d |-> 2], Pc |-> 950 * 100]

\* Lines 359-386; angle = 0.0, so the velocity is (5.0 * 1.0, 5.0 * 0.0).
StormAttrs(ramp) ==
    LET velocity == 5
    IN  [rho_air |-> [n |-> 115, d |-> 100], ambient_pressure |-> 101500,
         wind_forcing |-> TRUE, pressure_forcing |-> TRUE,
         wind_tolerance |-> Sci(1, -6), pressure_tolerance |-> Sci(1, -4),
         wind_refine |-> <<20, 40, 60>>, R_refine |-> <<60000, 40000, 20000>>,
         storm_type |-> 2, ramp_up_t |-> ramp,
         velocity |-> <<velocity * 1, velocity * 0>>, R_eye_init |-> <<0, 0>>,
         A |-> 23, B |-> [n |-> 3, d |-> 2], Pc |-> 950 * 100]

-----------------------------------------------------------------------------
(* The state after the module is loaded, before the __main__ block runs. *)

\* ndim = 2, line 34
ndim == 2

Start(a, ramp, l) ==
    /\ argv = a
    /\ RAMP_UP_TIME = ramp
    /\ lit = l
    /\ pc = "main"
    /\ claw_pkg = <<>>
    /\ rundata = NoRundata
    /\ i = 0
    /\ storm_data = NoStorm
    /\ written = <<>>
    /\ err = "none"

Init == \E a \in ArgvSet : Start(a, RampSource, SourceLit)

InitParam == \E a \in ArgvSet, ramp \in RampSet, l \in LitSet : Start(a, ramp, l)

\* An exception nobody catches ends the run.
Raise(e) ==
    /\ err' = e
    /\ pc' = "exit"

SetClawdata(new) ==
    rundata' = [rundata EXCEPT !.clawdata = Assign(@, new)]

SetGeodata(new) ==
    rundata' = [rundata EXCEPT !.geodata = Assign(@, new)]

-----------------------------------------------------------------------------
(* __main__, lines 390-402. *)

\* Lines 393-396: setrun(sys.argv[1]) with exactly one argument, else setrun().
MainCallSetrun ==
    /\ pc = "main"
    /\ claw_pkg' = IF Len(argv) = 2 THEN argv[2] ELSE geoclaw
    /\ pc' = SetrunOrder[1]
    /\ UNCHANGED <<argv, RAMP_UP_TIME, lit, rundata, i, storm_data, written, err>>

\* Line 398: rundata.write()
MainWriteRundata ==
    /\ pc = "write_rundata"
    /\ written' = Append(written, "rundata")
    /\ pc' = "set_storm"
    /\ UNCHANGED <<argv, RAMP_UP_TIME, lit, claw_pkg, rundata, i, storm_data, err>>

\* Line 402: storm_data.write()
MainWriteStorm ==
    /\ pc = "write_storm"
    /\ written' = Append(written, "storm_data")
    /\ pc' = "done"
    /\ UNCHANGED <<argv, RAMP_UP_TIME, lit, claw_pkg, rundata, i, storm_data, err>>

-----------------------------------------------------------------------------
(* setrun, lines 18-261. *)

\* Line 32
SetrunAssert ==
    /\ pc = "assert"
    /\ IF Lower(claw_pkg) = geoclaw
       THEN pc' = After("assert") /\ err' = err
       ELSE Raise("AssertionError")
    /\ UNCHANGED <<argv, RAMP_UP_TIME, lit, claw_pkg, rundata, i, storm_data, written>>

\* Lines 34-35
SetrunConstruct ==
    /\ pc = "construct"
    /\ rundata' = ClawRunData(claw_pkg, ndim)
    /\ pc' = After("construct")
    /\ UNCHANGED <<argv, RAMP_UP_TIME, lit, claw_pkg, i, storm_data, written, err>>

\* Line 47: the call of setgeo.
SetrunCallSetgeo ==
    /\ pc = "setgeo"
    /\ pc' = "setgeo_try"
    /\ UNCHANGED <<argv, RAMP_UP_TIME, lit, claw_pkg, rundata, i, storm_data, written, err>>

\* Lines 54-77
SetrunDomain ==
    /\ pc = "domain"
    /\ SetClawdata(DomainAttrs(ndim))
    /\ pc' = After("domain")
    /\ UNCHANGED <<argv, RAMP_UP_TIME, lit, claw_pkg, i, storm_data, written, err>>

\* Lines 84-90
SetrunSize ==
    /\ pc = "size"
    /\ SetClawdata(SizeAttrs)
    /\ pc' = After("size")
    /\ UNCHANGED <<argv, RAMP_UP_TIME, lit, claw_pkg, i, storm_data, written, err>>

\* Line 98
SetrunInitialTime ==
    /\ pc = "t0"
    /\ SetClawdata(InitialTimeAttrs(RAMP_UP_TIME))
    /\ pc' = After("t0")
    /\ UNCHANGED <<argv, RAMP_UP_TIME, lit, claw_pkg, i, storm_data, written, err>>

\* Lines 109-136
SetrunOutput ==
    /\ pc = "output"
    /\ SetClawdata(OutputAttrs(lit.outstyle, lit.num_hours, lit.step, RAMP_UP_TIME))
    /\ pc' = After("output")
    /\ UNCHANGED <<argv, RAMP_UP_TIME, lit, claw_pkg, i, storm_data, written, err>>

\* Lines 147-172
SetrunStepping ==
    /\ pc = "stepping"
    /\ SetClawdata(SteppingAttrs)
    /\ pc' = After("stepping")
    /\ UNCHANGED <<argv, RAMP_UP_TIME, lit, claw_pkg, i, storm_data, written, err>>

\* Lines 182-198
SetrunMethod ==
    /\ pc = "method"
    /\ SetClawdata(MethodAttrs(lit.mwaves, lit.mthlim))
    /\ pc' = After("method")
    /\ UNCHANGED <<argv, RAMP_UP_TIME, lit, claw_pkg, i, storm_data, written, err>>

\* Lines 206-218
SetrunBC ==
    /\ pc = "bc"
    /\ SetClawdata(BCAttrs)
    /\ pc' = After("bc")
    /\ UNCHANGED <<argv, RAMP_UP_TIME, lit, claw_pkg, i, storm_data, written, err>>

\* Lines 227-257
SetrunAMR ==
    /\ pc = "amr"
    /\ SetClawdata(AMRAttrs)
    /\ pc' = After("amr")
    /\ UNCHANGED <<argv, RAMP_UP_TIME, lit, claw_pkg, i, storm_data, written, err>>

\* Line 261: back in __main__ with the object.
SetrunReturn ==
    /\ pc = "return"
    /\ pc' = "write_rundata"
    /\ UNCHANGED <<argv, RAMP_UP_TIME, lit, claw_pkg, rundata, i, storm_data, written, err>>

-----------------------------------------------------------------------------
(* setgeo, lines 267-348. *)

\* Lines 274-278
SetgeoTry ==
    /\ pc = "setgeo_try"
    /\ IF rundata.made /\ rundata.has_geodata
       THEN pc' = "setgeo_params" /\ err' = err
       ELSE Raise("AttributeError")
    /\ UNCHANGED <<argv, RAMP_UP_TIME, lit, claw_pkg, rundata, i, storm_data, written>>

\* Lines 281-328: the constants, then gauges = [] and the start of the loop.
SetgeoParams ==
    /\ pc = "setgeo_params"
    /\ SetGeodata([gauges |-> <<>>] @@ GeoAttrs)
    /\ i' = 0
    /\ pc' = "gauge_loop"
    /\ UNCHANGED <<argv, RAMP_UP_TIME, lit, claw_pkg, storm_data, written, err>>

\* Lines 329-334: one iteration of for i in xrange(0, N_gauges).
SetgeoGauge ==
    /\ pc = "gauge_loop"
    /\ i < lit.N_gauges
    /\ SetGeodata([gauges |-> Append(rundata.geodata.gauges,
                       GaugeLine(lit.N_gauges, i, lit.gauge_span, lit.gauge_y0))])
    /\ i' = i + 1
    /\ UNCHANGED <<argv, RAMP_UP_TIME, lit, pc, claw_pkg, storm_data, written, err>>

\* Lines 338-348: after the loop, the rest of setgeo and its return.
SetgeoReturn ==
    /\ pc = "gauge_loop"
    /\ i >= lit.N_gauges
    /\ SetGeodata(GeoTailAttrs)
    /\ pc' = After("setgeo")
    /\ UNCHANGED <<argv, RAMP_UP_TIME, lit, claw_pkg, i, storm_data, written, err>>

-----------------------------------------------------------------------------
(* set_storm, lines 352-388. *)

\* Lines 354-356: the import and the constructor belong to the geoclaw
\* installation; either they succeed or the exception ends the run.
SetStormImport ==
    /\ pc = "set_storm"
    /\ \E ok \in BOOLEAN :
          IF ok
          THEN /\ storm_data' = [made |-> TRUE, data |-> NoAttrs]
               /\ pc' = "storm_params"
               /\ err' = err
          ELSE /\ Raise("ImportError")
               /\ storm_data' = storm_data
    /\ UNCHANGED <<argv, RAMP_UP_TIME, lit, claw_pkg, rundata, i, written>>

\* Lines 359-388
SetStormParams ==
    /\ pc = "storm_params"
    /\ storm_data' = [storm_data EXCEPT !.data = Assign(@, StormAttrs(RAMP_UP_TIME))]
    /\ pc' = "write_storm"
    /\ UNCHANGED <<argv, RAMP_UP_TIME, lit, claw_pkg, rundata, i, written, err>>

-----------------------------------------------------------------------------

Next ==
    \/ MainCallSetrun
    \/ SetrunAssert
    \/ SetrunConstruct
    \/ SetrunCallSetgeo
    \/ SetgeoTry
    \/ SetgeoParams
    \/ SetgeoGauge
    \/ SetgeoReturn
    \/ SetrunDomain
    \/ SetrunSize
    \/ SetrunInitialTime
    \/ SetrunOutput
    \/ SetrunStepping
    \/ SetrunMethod
    \/ SetrunBC
    \/ SetrunAMR
    \/ SetrunReturn
    \/ MainWriteRundata
    \/ SetStormImport
    \/ SetStormParams
    \/ MainWriteStorm

Spec == Init /\ [][Next]_vars

SpecParam == InitParam /\ [][Next]_vars

-----------------------------------------------------------------------------
(* Properties. *)

clawdata == rundata.clawdata
geodata == rundata.geodata

\* setrun has returned its object to __main__.
SetrunReturned ==
    \/ pc \in {"write_rundata", "set_storm", "storm_params", "write_storm", "done"}
    \/ pc = "exit" /\ err = "ImportError"

\* setgeo has run to its end.
SetgeoDone == "fixedgrids" \in Attrs(geodata)

FracEq(a, b) == a.n * b.d = b.n * a.d
FracLE(a, b) == a.n * b.d <= b.n * a.d
FracSub(a, b) == [n |-> a.n * b.d - b.n * a.d, d |-> a.d * b.d]

\* C1 as stated: with the values of the file (style 1, 40 hours, a frame
\* every 0.25 hours, 43200 seconds of ramp-up) the returned configuration
\* has nout = 161 and tfinal = 144000.
C1_Original ==
    SetrunReturned => clawdata.nout = 161 /\ clawdata.tfinal = 144000

\* C1 amended: with those values the returned configuration has
\* nout = 160 + 48 = 208 and tfinal = 144000.
C1_Amended ==
    SetrunReturned =>
        /\ clawdata.outstyle = 1
        /\ clawdata.nout = 208
        /\ clawdata.tfinal = 144000

C1_Witness ==
    /\ pc = "write_rundata"
    /\ lit.num_hours = 40 /\ lit.step = [n |-> 1, d |-> 4] /\ RAMP_UP_TIME = 43200
    /\ clawdata.nout = 208

C3_GaugePlacement ==
    SetgeoDone =>
        LET g == geodata.gauges
            N == lit.N_gauges
            y_min == Frac(lit.gauge_y0)
            y_max == Frac(lit.gauge_y0 + lit.gauge_span)
            width == lit.gauge_span
        IN  /\ Len(g) = N
            /\ \A k \in 1..N :
                /\ g[k].id = k - 1
                /\ FracEq(g[k].y, [n |-> width * k + lit.gauge_y0 * (N + 1), d |-> N + 1])
                /\ FracLT(y_min, g[k].y)
                /\ FracLT(g[k].y, y_max)
            /\ \A k \in 1..(N - 1) :
                /\ FracLT(g[k].y, g[k + 1].y)
                /\ FracEq(FracSub(g[k + 1].y, g[k].y), [n |-> width, d |-> N + 1])
            /\ (N = 21 /\ lit.gauge_y0 = -275000 /\ width = 550000)
                  => FracEq(g[1].y, Frac(-250000))

C3_Witness ==
    /\ SetgeoDone
    /\ lit.N_gauges = 21 /\ lit.gauge_y0 = -275000 /\ lit.gauge_span = 550000
    /\ Len(geodata.gauges) = 21
    /\ geodata.gauges[1].y.n = -250000 * geodata.gauges[1].y.d

\* C4: in the configuration setrun returns, the gauge numbers grow strictly
\* in the order of appending (so no two are equal), every gauge has
\* t1 < t2, and its x and y lie within [xlower, xupper] and
\* [ylower, yupper] of the same configuration.
C4_GaugeRecords ==
    SetrunReturned =>
        LET g == geodata.gauges
        IN  /\ Len(g) = lit.N_gauges
            /\ \A k \in 1..(Len(g) - 1) : g[k].id < g[k + 1].id
            /\ \A j, k \in 1..Len(g) : j # k => g[j].id # g[k].id
            /\ \A k \in 1..Len(g) :
                /\ SciLT(g[k].t1, g[k].t2)
                /\ clawdata.xlower <= g[k].x
                /\ g[k].x <= clawdata.xupper
                /\ FracLE(Frac(clawdata.ylower), g[k].y)
                /\ FracLE(g[k].y, Frac(clawdata.yupper))

C4_Witness ==
    /\ pc = "write_rundata"
    /\ Len(geodata.gauges) = 21
    /\ geodata.gauges[21].id = 20

\* C5: once setrun has set t0 and set_storm has set ramp_up_t, whatever the
\* value of RAMP_UP_TIME, t0 = -ramp_up_t.
C5_RampConsistency ==
    ("t0" \in Attrs(clawdata) /\ "ramp_up_t" \in Attrs(storm_data.data)) =>
        clawdata.t0 = -storm_data.data.ramp_up_t

C5_Witness ==
    /\ pc = "done"
    /\ RAMP_UP_TIME = 600
    /\ storm_data.data.ramp_up_t = 600
    /\ clawdata.t0 = -600

\* C6: a package name that is not 'geoclaw' when lower-cased ends setrun with
\* the failed package check (the assertion of line 32) before anything is
\* derived: no run configuration exists, no attribute is set, no storm
\* configuration exists and nothing is written.  A name that is 'geoclaw'
\* when lower-cased does not fail the check.
C6_FailFastOnPackage ==
    /\ (pc \notin {"main", "assert"} /\ Lower(claw_pkg) # geoclaw) =>
          /\ pc = "exit"
          /\ err = "AssertionError"
          /\ rundata = NoRundata
          /\ storm_data = NoStorm
          /\ written = <<>>
    /\ err = "AssertionError" => Lower(claw_pkg) # geoclaw /\ rundata = NoRundata

C6_Witness ==
    /\ pc = "exit"
    /\ err = "AssertionError"
    /\ claw_pkg = amrclaw
    /\ ~rundata.made

\* C7 as stated: when a derivation step (setrun, setgeo or set_storm) has
\* failed, nothing has been handed to write().
C7_NothingWrittenOnFailure ==
    err # "none" => written = <<>>

C9_ListLengths ==
    SetrunReturned =>
        /\ Len(clawdata.mthlim) = clawdata.mwaves
        /\ Len(clawdata.auxtype) = clawdata.maux
        /\ clawdata.mxnest < 0
        /\ Len(clawdata.inratx) >= -clawdata.mxnest - 1
        /\ Len(clawdata.inraty) >= -clawdata.mxnest - 1
        /\ Len(clawdata.inratt) >= -clawdata.mxnest - 1

C9_Witness ==
    /\ pc = "write_rundata"
    /\ clawdata.mxnest = -5
    /\ Len(clawdata.auxtype) = 9

\* The attributes of the domain extents, the grid shape, the start time and
\* the output schedule.
NumericsAttrs ==
    {"xlower", "xupper", "ylower", "yupper", "mx", "my", "t0", "outstyle", "nout"}

InSetgeo == pc \in {"setgeo_try", "setgeo_params", "gauge_loop"}

\* C10 as stated: when setgeo is invoked the numerics attributes are set on
\* the object it receives.
C10_Original ==
    pc = "setgeo_try" => NumericsAttrs \subseteq Attrs(clawdata)

\* C10 amended: setgeo runs before the numerics attributes are assigned.
\* While setgeo runs, setrun has assigned none of them; when one of them is
\* assigned setgeo has run to its end; and all are assigned when setrun
\* returns.
C10_Amended ==
    /\ InSetgeo => (rundata.made /\ Attrs(clawdata) \cap NumericsAttrs = {})
    /\ (Attrs(clawdata) \cap NumericsAttrs # {}) => SetgeoDone
    /\ SetrunReturned => (NumericsAttrs \subseteq Attrs(clawdata) /\ SetgeoDone)

C10_Witness ==
    /\ pc = "setgeo_try"
    /\ rundata.made
    /\ Attrs(clawdata) = {}

====
